---------------------------- MODULE Spec2Model ----------------------------
(***************************************************************************)
(* The k-bucket of network/kad/router/kbucket.go as a state machine.       *)
(*                                                                         *)
(* bucket.peers is a sequence of peer pointers, bucket.peersAccess a       *)
(* mutex.  Several goroutines call the bucket's methods; a call is a       *)
(* sequence of steps of the calling thread: Invoke, then the steps of the  *)
(* method.  A section of a method that runs between Lock() and Unlock() is *)
(* one step, enabled when the mutex is free; a return path that does not   *)
(* unlock (and a panic inside the section: nothing is deferred) leaves the *)
(* mutex with the thread.  The methods that read bucket.peers without the  *)
(* mutex take one step per evaluation of bucket.peers.                     *)
(*                                                                         *)
(* Spec starts from the value newKBucket returns.  The other               *)
(* specifications start from a bucket without placeholder slots (the zero  *)
(* value of kBucket, or that value after AddPeer admitted the resident     *)
(* peers), because from newKBucket's value no method ever gets past its    *)
(* first nil slot:                                                         *)
(*   SpecSeeded  AddPeer, RemovePeer, GetPeer, SetPeerAlive, two threads   *)
(*   SpecAll     every method, one thread reading, one mutating            *)
(*   SpecSnap    Peers and GetClosestPeers against mutations; seen         *)
(*   SpecLin     the sequential executions the calls agree with; lin       *)
(*   SpecIso     the array under bucket.peers and the slices held; mem     *)
(*   SpecRecent  the order of the last additions and refreshes; recent     *)
(*   SpecGone    the records removed and not added again; gone             *)
(*   SpecRank    GetClosestPeers on buckets that do not change             *)
(***************************************************************************)
EXTENDS Integers, Sequences, FiniteSets, TLC

VARIABLES
    peers,  \* bucket.peers: the slice, as the sequence of its elements
    lock,   \* bucket.peersAccess: Free, or the thread that holds it
    pc,     \* pc[t]: where thread t is in its current call
    op,     \* op[t]: the method thread t called last
    arg,    \* arg[t]: the arguments of that call
    loc,    \* loc[t]: the locals of that call that outlive a step
    ret,    \* ret[t]: what that call returned
    seen,   \* seen[t]: the values bucket.peers had since thread t's call began
    lin,    \* the sequential executions the calls made so far agree with
    mem,    \* the array under bucket.peers and the slices Peers() returned
    recent, \* the identifiers last added or refreshed, the latest last
    gone    \* the records RemovePeer took out and AddPeer has not put back

vars == <<peers, lock, pc, op, arg, loc, ret, seen, lin, mem, recent, gone>>

---------------------------------------------------------------------------
(* Constants of the program and bounds of the model *)

maxBucketSize == 16
maxPeersPerIP == 3

\* identifiers the callers use are 1..NumIds
NumIds == 3
\* slots the resident peers of a seeded bucket leave free
Room == 2
\* values of bucket.peers that may follow one another during one call of
\* Peers or GetClosestPeers
MaxSeen == 3
\* peers in the buckets GetClosestPeers is applied to on its own
MaxRank == 3

Threads == {"t1", "t2"}
Free == "free"

---------------------------------------------------------------------------
(* Peers (package kad/types: not part of the source at hand) *)

\* the nil *Peer
Nil == [id |-> 0, ip |-> 0, udp |-> 0, tcp |-> 0, verified |-> FALSE,
        alive |-> FALSE]

\* a peer record: identifier, IP, UDP port, TCP port, the "IP verified" and
\* the "alive" flag (peer 2 is unverified, peer 3 is not alive)
MkPeer(i, a) == [id |-> i, ip |-> a, udp |-> 4000 + i, tcp |-> 5000 + i,
                 verified |-> i # 2, alive |-> i # 3]

\* the records the callers hold: one per identifier on address 1, and a
\* second record of identifier 1 on address 2
Universe == {MkPeer(i, 1) : i \in 1..NumIds} \cup {MkPeer(1, 2)}

\* the resident peers: distinct identifiers; the first maxPeersPerIP - 1 are
\* on the callers' address 1, the others on addresses of their own
Resident(k) == MkPeer(100 + k, IF k < maxPeersPerIP THEN 1 ELSE 100 + k)


---------------------------------------------------------------------------
(* Values a call returns: an error kind ("" for none) and a value *)

OK == ""
Panic == "panic"

NoArg == [peer |-> Nil, id |-> 0, addr |-> [kind |-> "", ip |-> 0, port |-> 0],
          byte |-> 0, max |-> 0]
NoLoc == [inPeer |-> Nil, n |-> 0, snap |-> <<>>]
NoRet == [done |-> FALSE, err |-> OK, peer |-> Nil, n |-> 0, b |-> FALSE,
          list |-> <<>>]

RetErr(e) == [NoRet EXCEPT !.done = TRUE, !.err = e]
RetOK == [NoRet EXCEPT !.done = TRUE]
RetPeer(p) == [NoRet EXCEPT !.done = TRUE, !.peer = p]
RetInt(k) == [NoRet EXCEPT !.done = TRUE, !.n = k]
RetBool(v) == [NoRet EXCEPT !.done = TRUE, !.b = v]
RetList(s) == [NoRet EXCEPT !.done = TRUE, !.list = s]

---------------------------------------------------------------------------
(* Slices *)

\* append(s[0:i], s[i+1:len(s)]...), positions counted from 1
RemoveAt(s, i) == SubSeq(s, 1, i - 1) \o SubSeq(s, i + 1, Len(s))

\* the first position from i on where the range loop stops: a nil element
\* (the method called on it dereferences it) or an element with identifier
\* x (Peer.Equal compares identifiers); 0 when the loop runs to the end
RECURSIVE ScanId(_, _, _)
ScanId(s, x, i) ==
    IF i > Len(s) THEN 0
    ELSE IF s[i] = Nil \/ s[i].id = x THEN i
    ELSE ScanId(s, x, i + 1)

\* sameNetwork after the loop has passed positions 1..n of s
RECURSIVE SameNetwork(_, _, _)
SameNetwork(s, a, n) ==
    IF n = 0 THEN 0
    ELSE SameNetwork(s, a, n - 1) + (IF s[n].ip = a THEN 1 ELSE 0)

---------------------------------------------------------------------------
(* The sections that run under the mutex, as functions of bucket.peers:    *)
(* [err, peers, peer], err = Panic when the section dereferences nil       *)

Section(e, s, p) == [err |-> e, peers |-> s, peer |-> p]

\* AddPeer putting the new peer in front
AddPeerSection_Prepend(s, newPeer) ==
    LET stop == ScanId(s, newPeer.id, 1) IN
    IF stop # 0 /\ s[stop] = Nil THEN Section(Panic, s, Nil)
    ELSE IF stop # 0 THEN Section("DuplicatePeer", s, Nil)
    ELSE IF Len(s) >= maxBucketSize THEN Section("BucketFull", s, Nil)
    ELSE IF SameNetwork(s, newPeer.ip, Len(s)) >= maxPeersPerIP
         THEN Section("TooManyFromSameAddress", s, Nil)
    ELSE Section(OK, <<newPeer>> \o s, Nil)

\* AddPeer with the per-IP test off by one (> for >=)
AddPeerSection_IPOffByOne(s, newPeer) ==
    LET stop == ScanId(s, newPeer.id, 1) IN
    IF stop # 0 /\ s[stop] = Nil THEN Section(Panic, s, Nil)
    ELSE IF stop # 0 THEN Section("DuplicatePeer", s, Nil)
    ELSE IF Len(s) >= maxBucketSize THEN Section("BucketFull", s, Nil)
    ELSE IF SameNetwork(s, newPeer.ip, Len(s)) > maxPeersPerIP
         THEN Section("TooManyFromSameAddress", s, Nil)
    ELSE Section(OK, Append(s, newPeer), Nil)

\* AddPeer from Lock() on
AddPeerSection(s, newPeer) ==
    LET stop == ScanId(s, newPeer.id, 1) IN
    IF stop # 0 /\ s[stop] = Nil THEN Section(Panic, s, Nil)
    ELSE IF stop # 0 THEN Section("DuplicatePeer", s, Nil)
    ELSE IF Len(s) >= maxBucketSize THEN Section("BucketFull", s, Nil)
    ELSE IF SameNetwork(s, newPeer.ip, Len(s)) >= maxPeersPerIP
         THEN Section("TooManyFromSameAddress", s, Nil)
    ELSE Section(OK, Append(s, newPeer), Nil)

\* RemovePeer dropping the last element whatever the index found
RemovePeerSection_Last(s, peer) ==
    LET index == ScanId(s, peer.id, 1) IN
    IF index = 0 THEN Section("PeerNotFound", s, Nil)
    ELSE IF s[index] = Nil THEN Section(Panic, s, Nil)
    ELSE Section(OK, SubSeq(s, 1, Len(s) - 1), Nil)

\* RemovePeer dropping the last element when it finds no match
RemovePeerSection_DropOnMiss(s, peer) ==
    LET index == ScanId(s, peer.id, 1) IN
    IF index = 0 THEN Section("PeerNotFound", SubSeq(s, 1, Len(s) - 1), Nil)
    ELSE IF s[index] = Nil THEN Section(Panic, s, Nil)
    ELSE Section(OK, RemoveAt(s, index), Nil)

\* RemovePeer
RemovePeerSection(s, peer) ==
    LET index == ScanId(s, peer.id, 1) IN
    IF index = 0 THEN Section("PeerNotFound", s, Nil)
    ELSE IF s[index] = Nil THEN Section(Panic, s, Nil)
    ELSE Section(OK, RemoveAt(s, index), Nil)

\* GetPeer
GetPeerSection(s, id) ==
    LET index == ScanId(s, id, 1) IN
    IF index = 0 THEN Section("PeerNotFound", s, Nil)
    ELSE IF s[index] = Nil THEN Section(Panic, s, Nil)
    ELSE Section(OK, s, s[index])

\* pushToEnd appending without dropping the element found
pushToEndSection_NoRemove(s, peer) ==
    LET position == ScanId(s, peer.id, 1) IN
    IF position = 0 THEN Section("PeerNotFound", s, Nil)
    ELSE IF s[position] = Nil THEN Section(Panic, s, Nil)
    ELSE Section(OK, Append(s, peer), Nil)

\* pushToEnd putting the pointer back where the element was found
pushToEndSection_InPlace(s, peer) ==
    LET position == ScanId(s, peer.id, 1) IN
    IF position = 0 THEN Section("PeerNotFound", s, Nil)
    ELSE IF s[position] = Nil THEN Section(Panic, s, Nil)
    ELSE Section(OK, [s EXCEPT ![position] = peer], Nil)

\* pushToEnd: the element found is dropped and the pointer passed in is
\* appended
pushToEndSection(s, peer) ==
    LET position == ScanId(s, peer.id, 1) IN
    IF position = 0 THEN Section("PeerNotFound", s, Nil)
    ELSE IF s[position] = Nil THEN Section(Panic, s, Nil)
    ELSE Section(OK, Append(RemoveAt(s, position), peer), Nil)

\* GetPeerByAddr from the switch on: the loop stops at a nil element or at
\* the first element with that IP and that port
RECURSIVE ScanAddr(_, _, _, _, _)
ScanAddr(s, ip, port, isTcp, i) ==
    IF i > Len(s) THEN 0
    ELSE IF s[i] = Nil THEN i
    ELSE IF /\ s[i].ip = ip
            /\ \/ isTcp /\ s[i].tcp = port
               \/ ~isTcp /\ s[i].udp = port
         THEN i
    ELSE ScanAddr(s, ip, port, isTcp, i + 1)

\* uint16(pAddr.Port)
Uint16(n) == n % 65536

GetPeerByAddrSection(s, addr) ==
    LET index == ScanAddr(s, addr.ip, Uint16(addr.port), addr.kind = "tcp", 1) IN
    IF index = 0 THEN Section("PeerNotFound", s, Nil)
    ELSE IF s[index] = Nil THEN Section(Panic, s, Nil)
    ELSE Section(OK, s, s[index])

\* GetRandomPeer from Lock() on, b the byte read
GetRandomPeerSection(s, b) ==
    IF Len(s) > 0 THEN Section(OK, s, s[(b % Len(s)) + 1])
    ELSE Section("EmptyBucket", s, Nil)

---------------------------------------------------------------------------
(* The methods that read bucket.peers without the mutex *)

CountPeers == Len(peers)
CountRemainingPeers == maxBucketSize - CountPeers
IsFull == CountPeers = maxBucketSize
OldestPeer == IF Len(peers) > 0 THEN peers[1] ELSE Nil

\* copy(peerCpy, bucket.peers) into the n slots make() allocated: the first
\* min(n, len(bucket.peers)) elements, the other slots stay nil
CopyPeers(n, s) == [i \in 1..n |-> IF i <= Len(s) THEN s[i] ELSE Nil]

\* Peers handing out bucket.peers itself
PeersCopy_Alias(n, s) == [shared |-> TRUE, list |-> s]

\* the slice Peers() returns: its elements, and whether it lies in the array
\* under bucket.peers (make() gives it an array of its own)
PeersCopy(n, s) == [shared |-> FALSE, list |-> CopyPeers(n, s)]

\* the elements of a slice after s has been written over its first elements
Overwrite(a, s) == [i \in 1..Len(a) |-> IF i <= Len(s) THEN s[i] ELSE a[i]]

\* the capacity append gives the new array when a slice of capacity c is full
GrowCap(c) == IF c = 0 THEN 1 ELSE 2 * c

\* the array under bucket.peers once the slice has become s by an append to
\* (a part of) the slice that lay in the array a: the same array written in
\* place while s fits, a larger one otherwise
Appended(a, s) ==
    IF Len(s) <= Len(a) THEN Overwrite(a, s)
    ELSE [i \in 1..GrowCap(Len(a)) |-> IF i <= Len(s) THEN s[i] ELSE Nil]

\* the array under a slice built by appending the elements of s one by one
\* (make(len(s)) gives the same when len(s) is a power of two)
RECURSIVE Backing(_)
Backing(s) ==
    IF s = <<>> THEN <<>>
    ELSE Appended(Backing(SubSeq(s, 1, Len(s) - 1)), s)

\* no slice held
NoHeld == [shared |-> FALSE, list |-> <<>>]

---------------------------------------------------------------------------
(* Distance ranking *)

\* types.Xor on identifiers
RECURSIVE Xor(_, _)
Xor(a, b) ==
    IF a = 0 THEN b
    ELSE IF b = 0 THEN a
    ELSE 2 * Xor(a \div 2, b \div 2) + (IF a % 2 = b % 2 THEN 0 ELSE 1)

\* kadTypes.Filter with the closure of GetClosestPeers
RECURSIVE FilterActive(_)
FilterActive(s) ==
    IF s = <<>> THEN <<>>
    ELSE (IF Head(s).verified /\ Head(s).alive THEN <<Head(s)>> ELSE <<>>)
         \o FilterActive(Tail(s))

\* the position of the element of s closest to the identifier to
RECURSIVE Closest(_, _, _, _)
Closest(s, to, i, best) ==
    IF i > Len(s) THEN best
    ELSE Closest(s, to, i + 1,
                 IF Xor(s[i].id, to) < Xor(s[best].id, to) THEN i ELSE best)

\* sort.Slice by distance to the identifier to
RECURSIVE SortByDistance(_, _)
SortByDistance(s, to) ==
    IF s = <<>> THEN <<>>
    ELSE LET k == Closest(s, to, 1, 1) IN
         <<s[k]>> \o SortByDistance(RemoveAt(s, k), to)

\* GetClosestPeers from the copy on; a nil slot in the copy panics in the
\* filter's closure
ClosestOf(snap, to, max) ==
    IF \E i \in 1..Len(snap) : snap[i] = Nil THEN Section(Panic, <<>>, Nil)
    ELSE LET peerCpy == SortByDistance(FilterActive(snap), to) IN
         Section(OK, IF Len(peerCpy) > max THEN SubSeq(peerCpy, 1, max)
                     ELSE peerCpy, Nil)

---------------------------------------------------------------------------
(* Calls *)

Addrs ==
    { [kind |-> "udp", ip |-> 1, port |-> 4001],
      [kind |-> "tcp", ip |-> 1, port |-> 5001],
      [kind |-> "udp", ip |-> 1, port |-> 65536 + 4002],
      [kind |-> "unix", ip |-> 0, port |-> 0] }

\* the bytes rand.Read may deliver
RandomBytes == {0, 17, 255}

\* the values of a byte
Bytes == 0..255

\* the arguments a caller may pass to method o
Args(o) ==
    CASE o = "AddPeer" -> {[NoArg EXCEPT !.peer = p] : p \in Universe \cup {Nil}}
      [] o = "RemovePeer" -> {[NoArg EXCEPT !.peer = p] : p \in Universe}
      [] o \in {"GetPeer", "ContainsPeer", "SetPeerAlive"} ->
            {[NoArg EXCEPT !.id = i] : i \in 1..NumIds}
      [] o = "GetPeerByAddr" -> {[NoArg EXCEPT !.addr = a] : a \in Addrs}
      [] o = "GetClosestPeers" ->
            {[NoArg EXCEPT !.id = i, !.max = m] : i \in {1, NumIds}, m \in 0..2}
      [] OTHER -> {NoArg}

AllOps == {"CountPeers", "CountRemainingPeers", "AddPeer", "RemovePeer",
           "GetPeer", "GetPeerByAddr", "GetRandomPeer", "OldestPeer",
           "ContainsPeer", "Peers", "GetClosestPeers", "IsFull", "SetPeerAlive"}

\* thread t returns r
Return(t, r) ==
    /\ pc' = [pc EXCEPT ![t] = "idle"]
    /\ ret' = [ret EXCEPT ![t] = r]

\* thread t panics: it unwinds without returning (no method defers anything)
Panics(t) ==
    /\ pc' = [pc EXCEPT ![t] = "panic"]
    /\ ret' = [ret EXCEPT ![t] = [NoRet EXCEPT !.err = Panic]]

\* thread t leaves a section that ended with r
Leave(t, r) == IF r.err = Panic THEN Panics(t) ELSE Return(t, r)

\* thread t calls one of the methods in ops
Invoke(t, ops) ==
    /\ pc[t] = "idle"
    /\ \E o \in ops : \E a \in Args(o) :
          /\ op' = [op EXCEPT ![t] = o]
          /\ arg' = [arg EXCEPT ![t] = a]
    /\ pc' = [pc EXCEPT ![t] = "run"]
    /\ loc' = [loc EXCEPT ![t] = NoLoc]
    /\ ret' = [ret EXCEPT ![t] = NoRet]
    /\ UNCHANGED <<peers, lock>>

At(t, o) == pc[t] = "run" /\ op[t] = o

\* a method that reads without the mutex and returns r
Reads(t, r) == Return(t, r) /\ UNCHANGED <<peers, lock, op, arg, loc>>

CountPeersCall(t) == At(t, "CountPeers") /\ Reads(t, RetInt(CountPeers))

CountRemainingPeersCall(t) ==
    At(t, "CountRemainingPeers") /\ Reads(t, RetInt(CountRemainingPeers))

IsFullCall(t) == At(t, "IsFull") /\ Reads(t, RetBool(IsFull))

OldestPeerCall(t) == At(t, "OldestPeer") /\ Reads(t, RetPeer(OldestPeer))

AddPeer(t) ==
    /\ At(t, "AddPeer")
    /\ IF arg[t].peer = Nil
       THEN /\ Return(t, RetErr("InvalidArgument"))
            /\ UNCHANGED <<peers, lock>>
       ELSE /\ lock = Free
            /\ LET r == AddPeerSection(peers, arg[t].peer) IN
                 /\ peers' = r.peers
                 /\ lock' = IF r.err = Panic THEN t ELSE Free
                 /\ Leave(t, RetErr(r.err))
    /\ UNCHANGED <<op, arg, loc>>

RemovePeer(t) ==
    /\ At(t, "RemovePeer")
    /\ lock = Free
    /\ LET r == RemovePeerSection(peers, arg[t].peer) IN
         /\ peers' = r.peers
         /\ lock' = IF r.err = Panic THEN t ELSE Free
         /\ Leave(t, RetErr(r.err))
    /\ UNCHANGED <<op, arg, loc>>

\* what GetPeer, GetPeerByAddr and GetRandomPeer return after section r
Found(r) == IF r.err = OK THEN RetPeer(r.peer) ELSE RetErr(r.err)

GetPeer(t) ==
    /\ At(t, "GetPeer")
    /\ lock = Free
    /\ LET r == GetPeerSection(peers, arg[t].id) IN
         /\ lock' = IF r.err = Panic THEN t ELSE Free
         /\ Leave(t, Found(r))
    /\ UNCHANGED <<peers, op, arg, loc>>

ContainsPeer(t) ==
    /\ At(t, "ContainsPeer")
    /\ lock = Free
    /\ LET r == GetPeerSection(peers, arg[t].id) IN
         /\ lock' = IF r.err = Panic THEN t ELSE Free
         /\ Leave(t, IF r.err = Panic THEN RetErr(Panic)
                     ELSE RetBool(r.peer # Nil /\ r.err = OK))
    /\ UNCHANGED <<peers, op, arg, loc>>

\* the default case of the switch returns with the mutex still locked
GetPeerByAddr(t) ==
    /\ At(t, "GetPeerByAddr")
    /\ lock = Free
    /\ IF arg[t].addr.kind \notin {"udp", "tcp"}
       THEN /\ lock' = t
            /\ Return(t, RetErr("UnsupportedAddressKind"))
       ELSE LET r == GetPeerByAddrSection(peers, arg[t].addr) IN
             /\ lock' = IF r.err = Panic THEN t ELSE Free
             /\ Leave(t, Found(r))
    /\ UNCHANGED <<peers, op, arg, loc>>

\* rand.Read first, outside the mutex; then the section
GetRandomPeer(t) ==
    /\ op[t] = "GetRandomPeer"
    /\ IF pc[t] = "run"
       THEN /\ \E b \in RandomBytes \cup {-1} :
                 IF b = -1
                 THEN /\ Return(t, RetErr("RandomSourceFailure"))
                      /\ loc' = loc
                 ELSE /\ pc' = [pc EXCEPT ![t] = "lock"]
                      /\ loc' = [loc EXCEPT ![t].n = b]
                      /\ ret' = ret
            /\ lock' = lock
       ELSE /\ pc[t] = "lock"
            /\ lock = Free
            /\ LET r == GetRandomPeerSection(peers, loc[t].n) IN
                 /\ lock' = Free
                 /\ Return(t, Found(r))
            /\ loc' = loc
    /\ UNCHANGED <<peers, op, arg>>

\* make(len(bucket.peers)), then copy(peerCpy, bucket.peers)
Peers(t) ==
    /\ op[t] = "Peers"
    /\ IF pc[t] = "run"
       THEN /\ pc' = [pc EXCEPT ![t] = "copy"]
            /\ loc' = [loc EXCEPT ![t].n = Len(peers)]
            /\ ret' = ret
       ELSE /\ pc[t] = "copy"
            /\ Return(t, RetList(PeersCopy(loc[t].n, peers).list))
            /\ loc' = loc
    /\ UNCHANGED <<peers, lock, op, arg>>

\* len(bucket.peers) > 0, then Peers(), then filter, sort and cut; filter
\* and sort write into the array of the slice Peers() returned
GetClosestPeers(t) ==
    /\ op[t] = "GetClosestPeers"
    /\ CASE pc[t] = "run" ->
              /\ IF Len(peers) > 0
                 THEN pc' = [pc EXCEPT ![t] = "make"] /\ ret' = ret
                 ELSE Return(t, RetList(<<>>))
              /\ loc' = loc
              /\ peers' = peers
         [] pc[t] = "make" ->
              /\ pc' = [pc EXCEPT ![t] = "copy"]
              /\ loc' = [loc EXCEPT ![t].n = Len(peers)]
              /\ ret' = ret
              /\ peers' = peers
         [] pc[t] = "copy" ->
              LET cpy == PeersCopy(loc[t].n, peers)
                  snap == cpy.list
                  r == ClosestOf(snap, arg[t].id, arg[t].max) IN
              /\ loc' = [loc EXCEPT ![t].snap = snap]
              /\ Leave(t, IF r.err = Panic THEN RetErr(Panic) ELSE RetList(r.peers))
              /\ peers' = IF cpy.shared /\ r.err # Panic
                          THEN Overwrite(peers,
                                   SortByDistance(FilterActive(snap), arg[t].id))
                          ELSE peers
         [] OTHER -> FALSE
    /\ UNCHANGED <<lock, op, arg>>

\* SetPeerAlive keeping the mutex from the lookup to the move
SetPeerAlive_LockedUpdate(t) ==
    /\ op[t] = "SetPeerAlive"
    /\ CASE pc[t] = "run" ->
              /\ lock = Free
              /\ LET r == GetPeerSection(peers, arg[t].id) IN
                   /\ lock' = IF r.err = "PeerNotFound" THEN Free ELSE t
                   /\ IF r.err = OK
                      THEN /\ pc' = [pc EXCEPT ![t] = "update"]
                           /\ loc' = [loc EXCEPT ![t].inPeer = r.peer]
                           /\ ret' = ret
                      ELSE Leave(t, RetErr(r.err)) /\ loc' = loc
              /\ peers' = peers
         [] pc[t] = "update" ->
              /\ pc' = [pc EXCEPT ![t] = "push"]
              /\ UNCHANGED <<peers, lock, loc, ret>>
         [] pc[t] = "push" ->
              /\ lock = t
              /\ LET r == pushToEndSection(peers, loc[t].inPeer) IN
                   /\ peers' = r.peers
                   /\ lock' = IF r.err = Panic THEN t ELSE Free
                   /\ Leave(t, RetErr(r.err))
              /\ loc' = loc
         [] OTHER -> FALSE
    /\ UNCHANGED <<op, arg>>

\* GetPeer under the mutex, UpdateType without it, pushToEnd under it again
SetPeerAlive(t) ==
    /\ op[t] = "SetPeerAlive"
    /\ CASE pc[t] = "run" ->
              /\ lock = Free
              /\ LET r == GetPeerSection(peers, arg[t].id) IN
                   /\ lock' = IF r.err = Panic THEN t ELSE Free
                   /\ IF r.err = OK
                      THEN /\ pc' = [pc EXCEPT ![t] = "update"]
                           /\ loc' = [loc EXCEPT ![t].inPeer = r.peer]
                           /\ ret' = ret
                      ELSE Leave(t, RetErr(r.err)) /\ loc' = loc
              /\ peers' = peers
         [] pc[t] = "update" ->
              /\ pc' = [pc EXCEPT ![t] = "push"]
              /\ UNCHANGED <<peers, lock, loc, ret>>
         [] pc[t] = "push" ->
              /\ lock = Free
              /\ LET r == pushToEndSection(peers, loc[t].inPeer) IN
                   /\ peers' = r.peers
                   /\ lock' = IF r.err = Panic THEN t ELSE Free
                   /\ Leave(t, RetErr(r.err))
              /\ loc' = loc
         [] OTHER -> FALSE
    /\ UNCHANGED <<op, arg>>

---------------------------------------------------------------------------
(* Specifications *)

NoGhost == UNCHANGED <<seen, lin, mem, recent, gone>>

InitCalls ==
    /\ lock = Free
    /\ pc = [t \in Threads |-> "idle"]
    /\ op = [t \in Threads |-> ""]
    /\ arg = [t \in Threads |-> NoArg]
    /\ loc = [t \in Threads |-> NoLoc]
    /\ ret = [t \in Threads |-> NoRet]
    /\ seen = [t \in Threads |-> {}]
    /\ lin = {[s |-> peers, res |-> [t \in Threads |-> NoRet]]}
    /\ mem = [store |-> Backing(peers), held |-> [t \in Threads |-> NoHeld]]
    /\ recent = [i \in 1..Len(peers) |-> peers[i].id]
    /\ gone = {}

\* newKBucket: make([]*kadTypes.Peer, maxBucketSize) is maxBucketSize nil
\* pointers
newKBucket == [i \in 1..maxBucketSize |-> Nil]

Init == peers = newKBucket /\ InitCalls

Next ==
    \E t \in Threads :
        \/ Invoke(t, AllOps) /\ NoGhost
        \/ CountPeersCall(t) /\ NoGhost
        \/ CountRemainingPeersCall(t) /\ NoGhost
        \/ IsFullCall(t) /\ NoGhost
        \/ OldestPeerCall(t) /\ NoGhost
        \/ AddPeer(t) /\ NoGhost
        \/ RemovePeer(t) /\ NoGhost
        \/ GetPeer(t) /\ NoGhost
        \/ ContainsPeer(t) /\ NoGhost
        \/ GetPeerByAddr(t) /\ NoGhost
        \/ GetRandomPeer(t) /\ NoGhost
        \/ Peers(t) /\ NoGhost
        \/ GetClosestPeers(t) /\ NoGhost
        \/ SetPeerAlive(t) /\ NoGhost

Spec == Init /\ [][Next]_vars

\* the bucket after AddPeer admitted the first n resident peers to an empty
\* slice
RECURSIVE Seeded(_)
Seeded(n) ==
    IF n = 0 THEN <<>> ELSE AddPeerSection(Seeded(n - 1), Resident(n)).peers

InitSeeded == peers \in {<<>>, Seeded(maxBucketSize - Room)} /\ InitCalls

MutOps == {"AddPeer", "RemovePeer", "GetPeer", "SetPeerAlive"}

NextSeeded ==
    \E t \in Threads :
        \/ Invoke(t, MutOps) /\ NoGhost
        \/ AddPeer(t) /\ NoGhost
        \/ RemovePeer(t) /\ NoGhost
        \/ GetPeer(t) /\ NoGhost
        \/ SetPeerAlive(t) /\ NoGhost

SpecSeeded == InitSeeded /\ [][NextSeeded]_vars

\* the copy of bucket.peers thread u's call of Peers or GetClosestPeers took
Snapshot(u) == IF op[u] = "Peers" THEN ret[u].list ELSE loc[u].snap

\* seen[u] collects the values of bucket.peers from the step thread u calls
\* Peers or GetClosestPeers on; the step that ends the call keeps of them
\* those that are the copy the call took.  A step that would show the call
\* more than MaxSeen values is not taken.
SnapshotOps == {"Peers", "GetClosestPeers"}

Observe ==
    /\ seen' = [u \in Threads |->
                  IF op'[u] \notin SnapshotOps THEN {}
                  ELSE IF pc[u] = "idle" /\ pc'[u] # "idle" THEN {peers'}
                  ELSE IF pc[u] \in {"idle", "panic"} THEN seen[u]
                  ELSE IF pc'[u] \in {"idle", "panic"}
                       THEN {s \in seen[u] \cup {peers'} : s = Snapshot(u)'}
                  ELSE seen[u] \cup {peers'}]
    /\ \A u \in Threads : Cardinality(seen'[u]) <= MaxSeen
    /\ UNCHANGED <<lin, mem, recent, gone>>

\* thread t1 takes the snapshots, thread t2 mutates the bucket
SnapOps(t) ==
    IF t = "t1" THEN SnapshotOps ELSE {"AddPeer", "RemovePeer", "SetPeerAlive"}

NextSnap ==
    \E t \in Threads :
        \/ Invoke(t, SnapOps(t)) /\ Observe
        \/ AddPeer(t) /\ Observe
        \/ RemovePeer(t) /\ Observe
        \/ SetPeerAlive(t) /\ Observe
        \/ Peers(t) /\ Observe
        \/ GetClosestPeers(t) /\ Observe

SpecSnap == InitSeeded /\ [][NextSnap]_vars

\* call o(a) run alone on the bucket s: the bucket it leaves and what it
\* returns
SeqCall(s, o, a) ==
    CASE o = "AddPeer" ->
            IF a.peer = Nil
            THEN [peers |-> s, ret |-> RetErr("InvalidArgument")]
            ELSE LET r == AddPeerSection(s, a.peer) IN
                 [peers |-> r.peers, ret |-> RetErr(r.err)]
      [] o = "RemovePeer" ->
            LET r == RemovePeerSection(s, a.peer) IN
            [peers |-> r.peers, ret |-> RetErr(r.err)]
      [] o = "GetPeer" ->
            [peers |-> s, ret |-> Found(GetPeerSection(s, a.id))]
      [] o = "SetPeerAlive" ->
            LET g == GetPeerSection(s, a.id) IN
            IF g.err # OK THEN [peers |-> s, ret |-> RetErr(g.err)]
            ELSE LET r == pushToEndSection(s, g.peer) IN
                 [peers |-> r.peers, ret |-> RetErr(r.err)]

\* lin holds every [s, res] such that the calls that have returned, and the
\* calls under way whose res is set, can be run one after another, each
\* between its call and its return and returning what it returned (res for
\* a call under way), and leave the bucket s.
\*
\* c, and c with one more of the calls under way run
LinRun(c, t, r) == [s |-> r.peers, res |-> [c.res EXCEPT ![t] = r.ret]]

LinStep(c, under, ops, args) ==
    {c} \cup
    { LinRun(c, t, SeqCall(c.s, ops[t], args[t])) :
         t \in {u \in under : ~c.res[u].done} }

RECURSIVE LinClose(_, _, _, _, _)
LinClose(cs, under, ops, args, n) ==
    IF n = 0 THEN cs
    ELSE LinClose(UNION {LinStep(c, under, ops, args) : c \in cs},
                  under, ops, args, n - 1)

Record(t) ==
    /\ lin' =
         IF pc[t] = "idle"
         THEN LinClose(lin, {u \in Threads : pc'[u] # "idle"}, op', arg',
                       Cardinality(Threads))
         ELSE IF pc'[t] = "idle"
         THEN {[c EXCEPT !.res[t] = NoRet] : c \in {d \in lin : d.res[t] = ret'[t]}}
         ELSE lin
    /\ UNCHANGED <<seen, mem, recent, gone>>

\* thread t1 looks up and refreshes, thread t2 adds and removes
LinOps(t) ==
    IF t = "t1" THEN {"GetPeer", "SetPeerAlive"} ELSE {"AddPeer", "RemovePeer"}

NextLin ==
    \E t \in Threads :
        \/ Invoke(t, LinOps(t)) /\ Record(t)
        \/ AddPeer(t) /\ Record(t)
        \/ RemovePeer(t) /\ Record(t)
        \/ GetPeer(t) /\ Record(t)
        \/ SetPeerAlive(t) /\ Record(t)

\* the zero value of kBucket: no slots, the mutex unlocked
InitEmpty == peers = <<>> /\ InitCalls

SpecLin == InitEmpty /\ [][NextLin]_vars

\* mem follows the array under bucket.peers, which AddPeer, RemovePeer and
\* pushToEnd write in place while the slice fits, and for each thread the
\* slice its last call of Peers returned, as it reads now: a slice that lies
\* in the bucket's array reads what that array holds, until append moves
\* bucket.peers to a larger array
Held(t) ==
    LET h == mem.held[t]
        store == Appended(mem.store, peers') IN
    IF op[t] = "Peers" /\ pc[t] = "copy" /\ pc'[t] = "idle"
    THEN PeersCopy(loc[t].n, peers)
    ELSE IF pc[t] = "idle" /\ pc'[t] # "idle" THEN NoHeld
    ELSE IF h.shared /\ Len(peers') <= Len(mem.store)
         THEN [h EXCEPT !.list = SubSeq(store, 1, Len(h.list))]
    ELSE [h EXCEPT !.shared = FALSE]

Memory ==
    /\ mem' = [store |-> Appended(mem.store, peers'),
               held |-> [t \in Threads |-> Held(t)]]
    /\ UNCHANGED <<seen, lin, recent, gone>>

\* thread t1 calls Peers, thread t2 mutates the bucket
IsoOps(t) ==
    IF t = "t1" THEN {"Peers"} ELSE {"AddPeer", "RemovePeer", "SetPeerAlive"}

NextIso ==
    \E t \in Threads :
        \/ Invoke(t, IsoOps(t)) /\ Memory
        \/ AddPeer(t) /\ Memory
        \/ RemovePeer(t) /\ Memory
        \/ SetPeerAlive(t) /\ Memory
        \/ Peers(t) /\ Memory

SpecIso == InitSeeded /\ [][NextIso]_vars

\* the sequence q without the identifier x
Without(q, x) == SelectSeq(q, LAMBDA y : y # x)

\* recent lists the identifiers stored, in the order of the last successful
\* AddPeer or SetPeerAlive of each; a successful RemovePeer takes the
\* identifier out
Recency(t) ==
    /\ recent' =
         IF pc'[t] = "idle" /\ pc[t] # "idle" /\ ret'[t].err = OK
         THEN CASE op[t] = "AddPeer" ->
                     Append(Without(recent, arg[t].peer.id), arg[t].peer.id)
                [] op[t] = "SetPeerAlive" ->
                     Append(Without(recent, arg[t].id), arg[t].id)
                [] op[t] = "RemovePeer" -> Without(recent, arg[t].peer.id)
                [] OTHER -> recent
         ELSE recent
    /\ UNCHANGED <<seen, lin, mem, gone>>

NextRecent ==
    \E t \in Threads :
        \/ Invoke(t, MutOps) /\ Recency(t)
        \/ AddPeer(t) /\ Recency(t)
        \/ RemovePeer(t) /\ Recency(t)
        \/ GetPeer(t) /\ Recency(t)
        \/ SetPeerAlive(t) /\ Recency(t)

SpecRecent == InitSeeded /\ [][NextRecent]_vars

\* the records the bucket s holds
Stored(s) == {s[i] : i \in {k \in 1..Len(s) : s[k] # Nil}}

\* gone holds the records a successful RemovePeer took out of the bucket,
\* until a successful AddPeer of the record
Removal(t) ==
    /\ gone' =
         IF pc'[t] = "idle" /\ pc[t] # "idle" /\ ret'[t].err = OK
         THEN CASE op[t] = "RemovePeer" ->
                     gone \cup (Stored(peers) \ Stored(peers'))
                [] op[t] = "AddPeer" -> gone \ {arg[t].peer}
                [] OTHER -> gone
         ELSE gone
    /\ UNCHANGED <<seen, lin, mem, recent>>

NextGone ==
    \E t \in Threads :
        \/ Invoke(t, MutOps) /\ Removal(t)
        \/ AddPeer(t) /\ Removal(t)
        \/ RemovePeer(t) /\ Removal(t)
        \/ GetPeer(t) /\ Removal(t)
        \/ SetPeerAlive(t) /\ Removal(t)

SpecGone == InitSeeded /\ [][NextGone]_vars

\* thread t1 calls the methods that look the bucket up, thread t2 those that
\* change it
AllOpsOf(t) ==
    IF t = "t1" THEN AllOps \ {"AddPeer", "RemovePeer", "SetPeerAlive"}
    ELSE {"AddPeer", "RemovePeer", "SetPeerAlive"}

\* every method, on a bucket without placeholder slots
NextAll ==
    \E t \in Threads :
        \/ Invoke(t, AllOpsOf(t)) /\ NoGhost
        \/ CountPeersCall(t) /\ NoGhost
        \/ CountRemainingPeersCall(t) /\ NoGhost
        \/ IsFullCall(t) /\ NoGhost
        \/ OldestPeerCall(t) /\ NoGhost
        \/ AddPeer(t) /\ NoGhost
        \/ RemovePeer(t) /\ NoGhost
        \/ GetPeer(t) /\ NoGhost
        \/ ContainsPeer(t) /\ NoGhost
        \/ GetPeerByAddr(t) /\ NoGhost
        \/ GetRandomPeer(t) /\ NoGhost
        \/ Peers(t) /\ NoGhost
        \/ GetClosestPeers(t) /\ NoGhost
        \/ SetPeerAlive(t) /\ NoGhost

SpecAll == InitSeeded /\ [][NextAll]_vars

\* the peers GetClosestPeers is applied to on its own: the callers' records
\* and the first resident peers
RankPool == Universe \cup {Resident(k) : k \in 1..maxPeersPerIP}

\* the buckets AddPeer calls of up to n of these peers leave of an empty one
RECURSIVE Admitted(_)
Admitted(n) ==
    IF n = 0 THEN {<<>>}
    ELSE LET prev == Admitted(n - 1) IN
         prev \cup {AddPeerSection(s, p).peers : s \in prev, p \in RankPool}

InitRank == peers \in Admitted(MaxRank) /\ InitCalls

\* GetClosestPeers alone: no call changes the bucket
NextRank ==
    \E t \in Threads :
        \/ Invoke(t, {"GetClosestPeers"}) /\ NoGhost
        \/ GetClosestPeers(t) /\ NoGhost

SpecRank == InitRank /\ [][NextRank]_vars

---------------------------------------------------------------------------
(* Vocabulary of the properties *)

\* thread t takes the step of its AddPeer call that decides it (p non-nil)
AddPeerStep(t) ==
    /\ At(t, "AddPeer")
    /\ arg[t].peer # Nil
    /\ pc'[t] # "run"

\* the positions of s that hold a peer, and those on address a
Occupied(s) == {i \in 1..Len(s) : s[i] # Nil}
OnAddress(s, a) == {i \in Occupied(s) : s[i].ip = a}
HasId(s, x) == \E i \in Occupied(s) : s[i].id = x

Addresses(s) == {s[i].ip : i \in Occupied(s)}
PerIPBound(s) ==
    \A a \in Addresses(s) : Cardinality(OnAddress(s, a)) <= maxPeersPerIP
UniqueIds(s) ==
    \A i, j \in Occupied(s) : s[i].id = s[j].id => i = j

\* thread t takes the step of its RemovePeer call
RemovePeerStep(t) == At(t, "RemovePeer") /\ pc'[t] # "run"

\* thread t is back from a call of method o
Returned(t, o) == pc[t] = "idle" /\ op[t] = o /\ ret[t].done

\* no method has been called yet
Fresh == \A t \in Threads : op[t] = ""

---------------------------------------------------------------------------
(* C1 *)

\* C1: the bucket never holds more than maxBucketSize entries, and an AddPeer
\* call made when it holds maxBucketSize entries fails with BucketFull and
\* leaves the occupancy unchanged.
C1_CapacityContract ==
    /\ [](Len(peers) <= maxBucketSize)
    /\ [][\A t \in Threads :
            AddPeerStep(t) /\ Len(peers) = maxBucketSize =>
                /\ ret'[t].err = "BucketFull"
                /\ Len(peers') = Len(peers)]_vars

---------------------------------------------------------------------------
(* C2 *)

\* C2: the bucket newKBucket returns is empty: before any call CountPeers()
\* is 0, CountRemainingPeers() is maxBucketSize, IsFull() is false,
\* OldestPeer() is nil and GetRandomPeer() fails with EmptyBucket.
C2_NewBucketIsEmpty ==
    Fresh =>
        /\ CountPeers = 0
        /\ CountRemainingPeers = maxBucketSize
        /\ ~IsFull
        /\ OldestPeer = Nil
        /\ \A b \in RandomBytes :
              GetRandomPeerSection(peers, b).err = "EmptyBucket"

---------------------------------------------------------------------------
(* C3 *)

\* C3: AddPeer(p), p non-nil, succeeds exactly when no occupant has p's
\* identifier, fewer than maxBucketSize peers are stored and fewer than
\* maxPeersPerIP occupants share p's IP, and then p becomes the last entry
\* behind the earlier ones; so on a newly created bucket the AddPeer calls of
\* distinct peers on distinct IPs succeed until maxBucketSize are stored.
C3_AddPeerAdmits ==
    [][\A t \in Threads :
         AddPeerStep(t) =>
            LET p == arg[t].peer
                admit == /\ ~HasId(peers, p.id)
                         /\ Cardinality(Occupied(peers)) < maxBucketSize
                         /\ Cardinality(OnAddress(peers, p.ip)) < maxPeersPerIP
            IN  /\ (ret'[t].done /\ ret'[t].err = OK) <=> admit
                /\ admit => peers' = Append(peers, p)]_vars

---------------------------------------------------------------------------
(* C4 *)

\* C4: on a bucket that is not full, AddPeer of a peer with a new identifier
\* fails with TooManyFromSameAddress and inserts nothing when maxPeersPerIP
\* occupants already have its IP, and admits it otherwise; so AddPeer calls
\* never take an IP beyond maxPeersPerIP occupants.
C4_PerIPAdmission ==
    /\ PerIPBound(peers)
    /\ [][\A t \in Threads :
            AddPeerStep(t) /\ Len(peers) < maxBucketSize =>
                LET p == arg[t].peer
                    n == Cardinality(OnAddress(peers, p.ip))
                IN  /\ ~HasId(peers, p.id) /\ n >= maxPeersPerIP =>
                            /\ ret'[t].err = "TooManyFromSameAddress"
                            /\ peers' = peers
                    /\ ~HasId(peers, p.id) /\ n < maxPeersPerIP =>
                            /\ ret'[t].err = OK
                            /\ peers' = Append(peers, p)
                    /\ PerIPBound(peers) => PerIPBound(peers')]_vars

\* a fourth peer on an address was turned away from a bucket with room
C4_Witness ==
    \E t \in Threads :
        /\ Returned(t, "AddPeer")
        /\ ret[t].err = "TooManyFromSameAddress"
        /\ Len(peers) < maxBucketSize
        /\ Cardinality(OnAddress(peers, arg[t].peer.ip)) = maxPeersPerIP
        /\ \E i \in 1..Len(peers) : peers[i] \in Universe /\ peers[i].ip = arg[t].peer.ip

---------------------------------------------------------------------------
(* C5 *)

\* C5: under every interleaving of AddPeer, RemovePeer and SetPeerAlive no
\* reachable bucket has more than maxPeersPerIP entries with the same IP.
C5_PerIPInvariant == PerIPBound(peers)

---------------------------------------------------------------------------
(* C6 *)

\* C6: no two entries of the bucket ever have equal identifiers, and AddPeer
\* of a peer whose identifier is present fails with DuplicatePeer and leaves
\* contents and order as they were.
C6_Uniqueness ==
    /\ [](UniqueIds(peers))
    /\ [][\A t \in Threads :
            AddPeerStep(t) /\ HasId(peers, arg[t].peer.id) =>
                /\ ret'[t].err = "DuplicatePeer"
                /\ peers' = peers]_vars

\* an AddPeer was turned away as a duplicate of a record of the same
\* identifier
C6_Witness ==
    \E t \in Threads :
        /\ Returned(t, "AddPeer")
        /\ ret[t].err = "DuplicatePeer"
        /\ HasId(peers, arg[t].peer.id)
        /\ \A i \in 1..Len(peers) : peers[i] # arg[t].peer

---------------------------------------------------------------------------
(* C7 *)

\* C7: every method releases the mutex on every return path, error returns
\* included: a thread that is back from its call does not hold the mutex (so
\* the calls made later are not blocked for ever).
C7_LockReleasedOnReturn ==
    \A t \in Threads : pc[t] = "idle" => lock # t

---------------------------------------------------------------------------
(* C8 *)

\* C8: the methods are linearizable: the AddPeer, RemovePeer, GetPeer and
\* SetPeerAlive calls made so far return what some sequential execution of
\* them returns, each call taking effect between its call and its return,
\* and once they have all returned the bucket holds the sequence that
\* execution leaves.
C8_Linearizable ==
    /\ lin # {}
    /\ (\A t \in Threads : pc[t] = "idle") => \E c \in lin : c.s = peers

---------------------------------------------------------------------------
(* C9 *)

\* C9: what Peers() returns, and the copy GetClosestPeers works from, is the
\* whole of bucket.peers as it was at one instant between the call and its
\* return (so it has no nil slot and mixes no two states).
C9_SnapshotConsistent ==
    \A t \in Threads :
        op[t] \in SnapshotOps /\ pc[t] \in {"idle", "panic"}
            => Snapshot(t) \in seen[t]

---------------------------------------------------------------------------
(* C10 *)

\* the entries of s other than the first with identifier x, in their order
Others(s, x) ==
    LET k == ScanId(s, x, 1) IN IF k = 0 THEN s ELSE RemoveAt(s, k)

\* C10: when SetPeerAlive(id) succeeds, the peer with that identifier is the
\* last entry, the other entries keep their order, the occupancy is the
\* same, and OldestPeer() is not that peer unless it is the only occupant.
C10_RecencyOrdering ==
    [][\A t \in Threads :
         /\ op[t] = "SetPeerAlive"
         /\ pc[t] = "push"
         /\ pc'[t] = "idle"
         /\ ret'[t].err = OK
         => /\ Len(peers') = Len(peers)
            /\ peers'[Len(peers')].id = arg[t].id
            /\ SubSeq(peers', 1, Len(peers') - 1) = Others(peers, arg[t].id)
            /\ Len(peers') > 1 =>
                  (IF Len(peers') > 0 THEN peers'[1] ELSE Nil).id # arg[t].id]_vars

\* SetPeerAlive moved a peer from the head of several to the tail
C10_Witness ==
    \E t \in Threads :
        /\ Returned(t, "SetPeerAlive")
        /\ ret[t].err = OK
        /\ Len(peers) > 1
        /\ peers[Len(peers)].id = arg[t].id
        /\ peers[1] \in Universe

---------------------------------------------------------------------------
(* C11 *)

\* C11: right after a successful AddPeer(p), GetPeer(p.id) returns p and
\* ContainsPeer(p.id) is true; right after a successful RemovePeer(p),
\* GetPeer(p.id) fails with PeerNotFound and ContainsPeer(p.id) is false.
C11_RoundTrip ==
    [][\A t \in Threads :
         /\ AddPeerStep(t) /\ ret'[t].done /\ ret'[t].err = OK =>
               LET g == GetPeerSection(peers', arg[t].peer.id) IN
               /\ Found(g) = RetPeer(arg[t].peer)
               /\ g.peer # Nil /\ g.err = OK
         /\ RemovePeerStep(t) /\ ret'[t].done /\ ret'[t].err = OK =>
               LET g == GetPeerSection(peers', arg[t].peer.id) IN
               /\ Found(g) = RetErr("PeerNotFound")
               /\ ~(g.peer # Nil /\ g.err = OK)]_vars

\* one thread has added a peer that is now the last entry, the other has
\* removed a peer from among several
C11_Witness ==
    \E t, u \in Threads :
        /\ Returned(t, "RemovePeer") /\ ret[t].err = OK
        /\ ~HasId(peers, arg[t].peer.id)
        /\ Returned(u, "AddPeer") /\ ret[u].err = OK
        /\ Len(peers) > 1
        /\ peers[Len(peers)] = arg[u].peer

---------------------------------------------------------------------------
(* C12 *)

\* C12: RemovePeer(p) on a bucket with an entry of p's identifier removes
\* that one entry: the occupancy goes down by one and the other entries keep
\* their order; with no such entry it fails with PeerNotFound and the bucket
\* is as it was.
C12_RemovePeer ==
    [][\A t \in Threads :
         RemovePeerStep(t) =>
            IF HasId(peers, arg[t].peer.id)
            THEN /\ ret'[t].done /\ ret'[t].err = OK
                 /\ Len(peers') = Len(peers) - 1
                 /\ \E k \in 1..Len(peers) :
                       /\ peers[k].id = arg[t].peer.id
                       /\ \A i \in 1..Len(peers') :
                             peers'[i] = IF i < k THEN peers[i] ELSE peers[i + 1]
            ELSE /\ ret'[t].err = "PeerNotFound"
                 /\ peers' = peers]_vars

---------------------------------------------------------------------------
(* C13 *)

\* the positions of s that hold a peer that is IP-verified and alive
Qualifying(s) == {i \in Occupied(s) : s[i].verified /\ s[i].alive}

\* C13: GetClosestPeers(to, max), max >= 0, returns occupants that are
\* IP-verified and alive, each once, in non-decreasing XOR distance to the
\* target; as many as min(max, number of such occupants); none of those left
\* out is closer than one returned; and the result is empty when the bucket
\* is empty or no occupant qualifies.
C13_ClosestPeers ==
    \A t \in Threads :
        op[t] = "GetClosestPeers" /\ pc[t] \in {"idle", "panic"} =>
            /\ Returned(t, "GetClosestPeers")
            /\ LET r == ret[t].list
                   to == arg[t].id
                   q == Qualifying(peers)
                   n == Cardinality(q)
               IN  /\ Len(r) = IF arg[t].max < n THEN arg[t].max ELSE n
                   /\ \A i \in 1..Len(r) : \E k \in q : peers[k] = r[i]
                   /\ \A i, j \in 1..Len(r) :
                         i < j => /\ r[i] # r[j]
                                  /\ Xor(r[i].id, to) <= Xor(r[j].id, to)
                   /\ \A k \in q :
                         (\A i \in 1..Len(r) : r[i] # peers[k]) =>
                             \A i \in 1..Len(r) :
                                 Xor(r[i].id, to) <= Xor(peers[k].id, to)
                   /\ (peers = <<>> \/ q = {}) => r = <<>>

---------------------------------------------------------------------------
(* C14 *)

\* the number of byte values for which GetRandomPeer returns the peer at
\* position i of the bucket s
ChosenBy(s, i) ==
    Cardinality({b \in Bytes : GetRandomPeerSection(s, b).peer = s[i]})

\* C14: GetRandomPeer() chooses uniformly among the occupants: whatever the
\* occupancy, every position is chosen by the same number of the 256 values
\* of the random byte.
C14_UniformChoice ==
    Occupied(peers) = 1..Len(peers) =>
        \A i, j \in 1..Len(peers) : ChosenBy(peers, i) = ChosenBy(peers, j)

---------------------------------------------------------------------------
(* C15 *)

\* C15: the sequence a call of Peers() returned reads the same, element for
\* element, whatever AddPeer, RemovePeer and SetPeerAlive calls have since
\* rewritten the bucket's array.
C15_SnapshotIsolation ==
    \A t \in Threads :
        Returned(t, "Peers") => mem.held[t].list = ret[t].list

\* a call of Peers returned peers, and the bucket's array, written in place
\* since, no longer begins with them
C15_Witness ==
    \E t \in Threads :
        /\ Returned(t, "Peers")
        /\ Len(ret[t].list) > 0
        /\ Len(ret[t].list) <= Len(mem.store)
        /\ SubSeq(mem.store, 1, Len(ret[t].list)) # ret[t].list
        /\ Len(peers) < Len(ret[t].list)

---------------------------------------------------------------------------
(* C16 *)

\* C16: the bucket lists its peers in the order of their last successful
\* AddPeer or SetPeerAlive: OldestPeer() is the occupant added or refreshed
\* the longest ago, the last entry the one added or refreshed last.
C16_RecencyOrder ==
    /\ [i \in 1..Len(peers) |-> peers[i].id] = recent
    /\ Len(peers) > 0 => /\ OldestPeer.id = recent[1]
                         /\ peers[Len(peers)].id = recent[Len(recent)]

\* a SetPeerAlive has moved a peer behind a peer added after it
C16_Witness ==
    \E t, u \in Threads :
        /\ Returned(t, "SetPeerAlive") /\ ret[t].err = OK
        /\ Returned(u, "AddPeer") /\ ret[u].err = OK
        /\ Len(peers) > 1
        /\ peers[Len(peers)].id = arg[t].id
        /\ peers[Len(peers) - 1] = arg[u].peer

---------------------------------------------------------------------------
(* C17 *)

\* C17: a thread in SetPeerAlive does not hold the mutex while UpdateType
\* runs: it has released the mutex it took for the lookup, and takes it
\* again from free, after the update, for the move.
C17_UpdateOutsideLock ==
    /\ [](\A t \in Threads :
            op[t] = "SetPeerAlive" /\ pc[t] = "update" => lock # t)
    /\ [][\A t \in Threads :
            op[t] = "SetPeerAlive" /\ pc[t] = "push" /\ pc'[t] # "push"
                => lock = Free]_vars

\* while one thread is at UpdateType, the other has taken the mutex and
\* removed the peer being refreshed
C17_Witness ==
    \E t, u \in Threads :
        /\ op[t] = "SetPeerAlive" /\ pc[t] = "update"
        /\ Returned(u, "RemovePeer") /\ ret[u].err = OK
        /\ arg[u].peer.id = arg[t].id
        /\ ~HasId(peers, arg[t].id)
        /\ lock = Free

---------------------------------------------------------------------------
(* C18 *)

\* C18: AddPeer turns a peer away in a fixed order of tests: a nil peer with
\* InvalidArgument, the bucket untouched; else a peer whose identifier is
\* present with DuplicatePeer, full bucket or not, per-IP cap met or not;
\* else, on a full bucket, with BucketFull, per-IP cap met or not; and
\* TooManyFromSameAddress is returned only for a new identifier on a bucket
\* that is not full.
C18_ErrorPrecedence ==
    [][\A t \in Threads :
         At(t, "AddPeer") /\ pc'[t] # "run" =>
            LET p == arg[t].peer
                dup == HasId(peers, p.id)
                full == Len(peers) >= maxBucketSize
            IN  IF p = Nil
                THEN ret'[t].err = "InvalidArgument" /\ peers' = peers
                ELSE /\ dup => ret'[t].err = "DuplicatePeer"
                     /\ ~dup /\ full => ret'[t].err = "BucketFull"
                     /\ ret'[t].err = "TooManyFromSameAddress" =>
                           ~dup /\ ~full]_vars

---------------------------------------------------------------------------
(* C19 *)

\* C19: a record a successful RemovePeer took out of the bucket is not in
\* the bucket again until an AddPeer of that record succeeds; a SetPeerAlive
\* that comes to its move after its record was taken out fails with
\* PeerNotFound and leaves the bucket as it was.
C19_RemovedStaysOut ==
    /\ [](Stored(peers) \cap gone = {})
    /\ [][\A t \in Threads :
            /\ op[t] = "SetPeerAlive" /\ pc[t] = "push" /\ pc'[t] # "push"
            /\ loc[t].inPeer \in gone
            => /\ ret'[t].err = "PeerNotFound"
               /\ peers' = peers]_vars

---------------------------------------------------------------------------
(* C20 *)

\* the methods that only look the bucket up
ReadOnlyOps == AllOps \ {"AddPeer", "RemovePeer", "SetPeerAlive"}

\* C20: no step of a call of a read-only method changes bucket.peers
\* (GetClosestPeers sorts its copy), nor does the step by which a call
\* returns an error, nor the steps of SetPeerAlive before its move.
C20_Frame ==
    [][\A t \in Threads :
         pc[t] # "idle" /\ pc'[t] # pc[t] =>
            /\ op[t] \in ReadOnlyOps => peers' = peers
            /\ pc'[t] = "idle" /\ ret'[t].err # OK => peers' = peers
            /\ op[t] = "SetPeerAlive" /\ pc[t] # "push" => peers' = peers]_vars

\* GetClosestPeers has returned two peers in the order of their distance,
\* which is not the order the bucket holds them in, and a RemovePeer has
\* failed
C20_Witness ==
    \E t, u \in Threads :
        /\ Returned(t, "GetClosestPeers")
        /\ Len(ret[t].list) = 2
        /\ \E i, j \in 1..Len(peers) :
              i < j /\ peers[i] = ret[t].list[2] /\ peers[j] = ret[t].list[1]
        /\ Returned(u, "RemovePeer")
        /\ ret[u].err = "PeerNotFound"

====
